---- MODULE Spec2Model ----
(***************************************************************************)
(* A model of the shell-test harness: the parallel runner                  *)
(* (parallel_test_runner.py: run_test, run_all_tests over a                *)
(* ThreadPoolExecutor, main) and the sequential runner (test_runner.py:    *)
(* run_test, run_all_tests).                                               *)
(*                                                                         *)
(* Text (stdout, stderr, messages) is a sequence of tokens; a formatted    *)
(* number is the sequence of its decimal digits.                           *)
(*                                                                         *)
(* parallel_test_runner.py line 59 is blank where the `try:` that the      *)
(* except clauses of lines 74 and 82 belong to must stand; run_test is     *)
(* modelled with that try block around lines 60-73.                        *)
(***************************************************************************)
EXTENDS Integers, Sequences, FiniteSets, Bags, TLC

\* ------------------------------------------------------------------ bounds
\* The longest list of scripts handed to a runner.
MaxScripts == 3
\* The largest worker count of the pool.
MaxWorkers == 2

\* ------------------------------------------------------- program constants
\* run_test's default timeout, and the timeout the tests pass.
DefaultTimeout == 30
TestTimeout == 5
Timeouts == {TestTimeout, DefaultTimeout}

\* subprocess.run's returncode: the child's exit status, or -s when signal s
\* ended it (1 = SIGHUP, 2 = SIGINT).
ReturnCodes == {-2, -1, 0, 1}

\* What a child may have written to stdout and to stderr.
ChildOutputs ==
    { [stdout |-> <<>>, stderr |-> <<>>],
      [stdout |-> <<"ok">>, stderr |-> <<"boom">>] }

\* str(exc) of an unexpected exception (a missing interpreter, undecodable output).
ExcMessages == { <<"Errno", "2">> }

\* What the child of one script does under subprocess.run: it completes within
\* the timeout with a returncode and its output, it does not complete within
\* the timeout (slow or hung), or subprocess.run raises another exception.
ExitBehaviours ==
    [kind : {"exit"}, returncode : ReturnCodes, out : ChildOutputs, msg : {<<>>}]
HangBehaviour ==
    [kind |-> "hang", returncode |-> 0, out |-> [stdout |-> <<>>, stderr |-> <<>>],
     msg |-> <<>>]
RaiseBehaviours ==
    [kind : {"raise"}, returncode : {0}, out : {[stdout |-> <<>>, stderr |-> <<>>]},
     msg : ExcMessages]
Behaviours == ExitBehaviours \cup {HangBehaviour} \cup RaiseBehaviours

\* The behaviours that differ in how the pool is scheduled.
SchedulingBehaviours ==
    {b \in Behaviours : b.kind = "exit" =>
        b.returncode = 0 /\ b.out = [stdout |-> <<>>, stderr |-> <<>>]}

\* The behaviours main's summary and reports tell apart: a pass, a failure, a
\* timeout and an internal error.
MainBehaviours ==
    {b \in Behaviours : b.kind = "exit" =>
        /\ b.returncode \in {0, 1}
        /\ b.out = [stdout |-> <<"ok">>, stderr |-> <<"boom">>]}

\* The behaviours that differ in exit code or in status.
StatusBehaviours ==
    {b \in Behaviours : b.kind = "exit" =>
        b.out = [stdout |-> <<"ok">>, stderr |-> <<"boom">>]}

\* script_path.name of the scripts that glob("test_*.sh") finds in one directory.
ScriptNames == <<"test_a.sh", "test_b.sh", "test_c.sh", "test_d.sh", "test_e.sh">>
Name(i) == ScriptNames[i]

\* ------------------------------------------------------------------- text
DigitChars == <<"0", "1", "2", "3", "4", "5", "6", "7", "8", "9">>

RECURSIVE IntToStr(_)
\* format(n) of a natural number: its decimal digits, most significant first.
IntToStr(n) ==
    IF n < 10 THEN <<DigitChars[n + 1]>>
    ELSE IntToStr(n \div 10) \o <<DigitChars[(n % 10) + 1]>>

\* needle in haystack, for token sequences.
Contains(haystack, needle) ==
    \E i \in 0..(Len(haystack) - Len(needle)) :
        \A j \in 1..Len(needle) : haystack[i + j] = needle[j]

\* f"Timeout after {timeout}s"
TimeoutMessage(t) == <<"Timeout", "after">> \o IntToStr(t) \o <<"s">>

\* A formatting of an integer that drops the sign of a negative one.
FormatIntUnsigned(n) == IF n < 0 THEN IntToStr(-n) ELSE IntToStr(n)

\* str(n) of an integer, as json.dump and an f-string write it.
FormatInt(n) == IF n < 0 THEN <<"-">> \o IntToStr(-n) ELSE IntToStr(n)

\* ------------------------------------------------------------------- JSON
\* The text of a file is the sequence of its tokens; a string value is the
\* sequence of its words.
Quote == "\""
Backslash == "\\"
Newline == "\n"
Whitespace == {" ", Newline}

\* json's string escapes, for the characters a word can be.
EscapeToken(c) ==
    CASE c = Quote -> <<Backslash, Quote>>
      [] c = Backslash -> <<Backslash, Backslash>>
      [] c = Newline -> <<Backslash, "n">>
      [] OTHER -> <<c>>

RECURSIVE Escape(_)
Escape(str) ==
    IF str = <<>> THEN <<>> ELSE EscapeToken(Head(str)) \o Escape(Tail(str))

\* json.dumps of a str.
JsonString(str) == <<Quote>> \o Escape(str) \o <<Quote>>

\* json.dumps of the value of one field of a result.
JsonValue(r, key) ==
    CASE key \in {"name", "status"} -> JsonString(<<r[key]>>)
      [] key \in {"stdout", "stderr"} -> JsonString(r[key])
      [] OTHER -> FormatInt(r[key])

RECURSIVE Join(_, _)
\* sep.join(items), for a sequence of texts.
Join(items, sep) ==
    IF Len(items) = 0 THEN <<>>
    ELSE IF Len(items) = 1 THEN items[1]
    ELSE items[1] \o sep \o Join(Tail(items), sep)

\* The indentation json.dump writes at a nesting depth, with indent=2.
Indent(depth) == [k \in 1..(2 * depth) |-> " "]

\* json.dump of one result dict, whose keys are in insertion order.
JsonObject(r, keys) ==
    <<"{", Newline>>
    \o Join([k \in 1..Len(keys) |->
                Indent(2) \o JsonString(<<keys[k]>>) \o <<":", " ">>
                \o JsonValue(r, keys[k])],
            <<",", Newline>>)
    \o <<Newline>> \o Indent(1) \o <<"}">>

\* json.dump(results, f, indent=2)
JsonDump(rs, keys) ==
    IF Len(rs) = 0 THEN <<"[", "]">>
    ELSE <<"[", Newline>>
         \o Join([k \in 1..Len(rs) |-> Indent(1) \o JsonObject(rs[k], keys)],
                 <<",", Newline>>)
         \o <<Newline, "]">>

\* -------------------------------------------------------------- discovery
\* A file name, a glob pattern, a tag and a source text are sequences of
\* characters. The paths of one directory are numbered; FileNames gives their
\* names, in no particular order.
FileNames ==
    << <<"t", "e", "s", "t", "_", "b", ".", "s", "h">>,
       <<"l", "i", "b", ".", "s", "h">>,
       <<"t", "e", "s", "t", "_", "a", ".", "s", "h">>,
       <<"t", "e", "s", "t", "_", "a", ".", "p", "y">> >>
Paths == 1..Len(FileNames)

\* The characters of the names, in code point order.
CodePoints == <<".", "_", "a", "b", "e", "h", "i", "l", "p", "s", "t", "y">>
Ord(c) == CHOOSE k \in 1..Len(CodePoints) : CodePoints[k] = c

RECURSIVE StrLess(_, _)
\* a < b for two strings: the first differing character decides, a proper
\* prefix is smaller.
StrLess(a, b) ==
    IF b = <<>> THEN FALSE
    ELSE IF a = <<>> THEN TRUE
    ELSE IF Head(a) = Head(b) THEN StrLess(Tail(a), Tail(b))
    ELSE Ord(Head(a)) < Ord(Head(b))

RECURSIVE SortedPaths(_)
\* sorted(paths), for distinct paths of one directory.
SortedPaths(S) ==
    IF S = {} THEN <<>>
    ELSE LET m == CHOOSE x \in S :
                    \A y \in S \ {x} : StrLess(FileNames[x], FileNames[y])
         IN  <<m>> \o SortedPaths(S \ {m})

RECURSIVE GlobMatch(_, _)
\* Whether a name matches a glob pattern; * stands for any characters.
GlobMatch(pattern, name) ==
    IF pattern = <<>> THEN name = <<>>
    ELSE IF Head(pattern) = "*"
         THEN \/ GlobMatch(Tail(pattern), name)
              \/ name # <<>> /\ GlobMatch(pattern, Tail(name))
         ELSE /\ name # <<>>
              /\ Head(name) = Head(pattern)
              /\ GlobMatch(Tail(pattern), Tail(name))

\* glob("test_*.sh"), the pattern of the parallel runner and the default of
\* the sequential one.
DefaultPattern == <<"t", "e", "s", "t", "_", "*", ".", "s", "h">>

\* An entry of the directory: nothing, a directory, a regular file with its
\* text, or a symbolic link to another path.
Absent(p) == [kind |-> "absent", text |-> <<>>, target |-> p]
EntriesOf(p, texts) ==
    {Absent(p), [kind |-> "dir", text |-> <<>>, target |-> p]}
    \cup [kind : {"file"}, text : texts, target : {p}]
    \cup [kind : {"link"}, text : {<<>>}, target : Paths \ {p}]

\* The directories over the paths: every link points at something that is
\* not a link itself.
Directories(texts) ==
    {d \in {<<e1, e2, e3, e4>> : e1 \in EntriesOf(1, texts), e2 \in EntriesOf(2, texts),
                                 e3 \in EntriesOf(3, texts), e4 \in EntriesOf(4, texts)} :
        \A p \in Paths : d[p].kind = "link" => d[d[p].target].kind # "link"}

\* Path.resolve(), Path.is_file() and Path.read_text(): all follow a link.
Resolve(d, p) == IF d[p].kind = "link" THEN d[p].target ELSE p
IsFile(d, p) == d[Resolve(d, p)].kind = "file"
ReadText(d, p) == d[Resolve(d, p)].text

\* The paths Path(directory).glob(pattern) yields: the entries whose name
\* matches; a directory that does not exist yields none.
Glob(d, exists, pattern) ==
    {p \in Paths : exists /\ d[p].kind # "absent" /\ GlobMatch(pattern, FileNames[p])}

\* The orders in which a set may be listed.
Orders(S) ==
    {f \in [1..Cardinality(S) -> S] : \A i, j \in 1..Cardinality(S) : f[i] = f[j] => i = j}

\* The characters \s and \w of the tag pattern match.
SpaceChars == {" ", "\n", "\t"}
WordChars == {"a", "b", "_"}

RECURSIVE SkipSpaces(_, _)
\* \s*: the first position at or after p that holds no space.
SkipSpaces(text, p) ==
    IF p <= Len(text) /\ text[p] \in SpaceChars THEN SkipSpaces(text, p + 1) ELSE p

RECURSIVE WordEnd(_, _)
\* \w+: the first position at or after p that holds no word character.
WordEnd(text, p) ==
    IF p <= Len(text) /\ text[p] \in WordChars THEN WordEnd(text, p + 1) ELSE p

RECURSIVE FindAll(_, _)
\* re.findall(r"#\s*@(\w+)", text) from position p on: the words of the
\* matches, found left to right without overlap.
FindAll(text, p) ==
    IF p > Len(text) THEN <<>>
    ELSE IF text[p] # "#" THEN FindAll(text, p + 1)
    ELSE LET at == SkipSpaces(text, p + 1)
             end == WordEnd(text, at + 1)
         IN  IF at <= Len(text) /\ text[at] = "@" /\ end > at + 1
             THEN <<SubSeq(text, at + 1, end - 1)>> \o FindAll(text, end)
             ELSE FindAll(text, p + 1)

\* A test that takes a tag for present when a found word merely starts with it.
TagInPrefix(tag, script_tags) ==
    \E j \in 1..Len(script_tags) :
        Len(tag) <= Len(script_tags[j]) /\ SubSeq(script_tags[j], 1, Len(tag)) = tag

\* tag in script_tags
TagIn(tag, script_tags) == \E j \in 1..Len(script_tags) : script_tags[j] = tag

\* A test that takes only a filter that was not given for no filter.
NoFilterNoneOnly(tags) == ~tags.given

\* not tags: the filter is None or an empty list.
NoFilter(tags) == ~tags.given \/ tags.list = <<>>

\* A set of paths that keeps the paths as globbed, without resolve().
UniqueUnresolved(d, listed) ==
    {listed[k] : k \in {j \in 1..Len(listed) : IsFile(d, listed[j])}}

\* {s.resolve() for s in scripts if s.is_file()}
UniqueScripts(d, listed) ==
    {Resolve(d, listed[k]) : k \in {j \in 1..Len(listed) : IsFile(d, listed[j])}}

\* The source texts of the scripts of a directory.
SourceTexts ==
    { <<>>,
      <<"#", "@", "a">>,
      <<"#", " ", "@", "a", "b">>,
      <<"@", "a", "\n", "#", " ", "b">>,
      <<"#", "@", "b", "\n", "#", "\n", " ", "@", "a", "-", "b">> }

\* The tag filters: None, or a list of tags.
NoTags == [given |-> FALSE, list |-> <<>>]
TagFilters ==
    {NoTags} \cup
    [given : {TRUE},
     list : { <<>>, << <<"a">> >>, << <<"b">> >>, << <<"a", "b">> >>,
              << <<"b">>, <<"a">> >> }]

\* The lists of glob patterns: none, one or two of test_*.sh, *.sh, test_a*.
PatternSamples ==
    {DefaultPattern, <<"*", ".", "s", "h">>, <<"t", "e", "s", "t", "_", "a", "*">>}
PatternLists ==
    {<<>>} \cup {<<a>> : a \in PatternSamples}
    \cup {<<a, b>> : a \in PatternSamples, b \in PatternSamples}

\* ---------------------------------------------- parallel runner: run_test
\* A status that passes every child that did not exit with a positive code.
StatusOfNonPositive(returncode) == IF returncode <= 0 THEN "PASS" ELSE "FAIL"

\* The status run_test gives a completed child.
StatusOf(returncode) == IF returncode = 0 THEN "PASS" ELSE "FAIL"

\* run_test's result when subprocess.run returns.
CompletedResult(name, returncode, out) ==
    [name |-> name, exit_code |-> returncode, stdout |-> out.stdout,
     stderr |-> out.stderr, status |-> StatusOf(returncode)]

\* A timeout result whose message states the default timeout, not the one given.
TimeoutResultDefaultDuration(name, t) ==
    [name |-> name, exit_code |-> -1, stdout |-> <<>>,
     stderr |-> TimeoutMessage(DefaultTimeout), status |-> "TIMEOUT"]

\* run_test's result when subprocess.run raises TimeoutExpired.
TimeoutResult(name, t) ==
    [name |-> name, exit_code |-> -1, stdout |-> <<>>,
     stderr |-> TimeoutMessage(t), status |-> "TIMEOUT"]

\* An internal error reported with the code and status of a timeout.
ErrorResultAsTimeout(name, msg) ==
    [name |-> name, exit_code |-> -1, stdout |-> <<>>,
     stderr |-> msg, status |-> "TIMEOUT"]

\* run_test's result when subprocess.run raises any other Exception.
ErrorResult(name, msg) ==
    [name |-> name, exit_code |-> -2, stdout |-> <<>>,
     stderr |-> msg, status |-> "ERROR"]

\* run_test(script_path, shell, timeout) for a child that behaves as b.
run_test(name, b, t) ==
    CASE b.kind = "exit" -> CompletedResult(name, b.returncode, b.out)
      [] b.kind = "hang" -> TimeoutResult(name, t)
      [] OTHER -> ErrorResult(name, b.msg)

VARIABLES
    pc,           \* where the main thread stands
    entry,        \* "api": run_all_tests is called; "main": the command line
    args,         \* the parsed command line: [json, html]
    scripts,      \* the list of scripts: a sequence of script numbers
    behaviour,    \* script position -> what its child does
    max_workers,  \* the pool's bound
    timeout,      \* the per-unit timeout, in seconds
    submitted,    \* how many scripts executor.submit has taken
    work_queue,   \* the executor's FIFO of work items not yet taken by a worker
    worker,       \* worker thread -> the work item it runs, 0 when idle
    child,        \* work item -> "none" | "alive" | "reaped"
    future,       \* work item -> [done, yielded, result]
    results,      \* the result list
    failures,     \* sequential runner: the names of the failed units
    summary,      \* the counts the summary line reports
    emitted,      \* sequential runner: the names logged under "Failed Tests:"
    written,      \* the reports written
    exit_status,  \* the process exit status, once pc = "exited"
    directory,    \* find_test_scripts: path -> entry of the test directory
    dir_exists,   \* find_test_scripts: whether the test directory exists
    patterns,     \* find_test_scripts: the glob patterns
    tags,         \* find_test_scripts: the tag filter
    cursor,       \* find_test_scripts: how many rounds its loop has made
    globbed,      \* find_test_scripts: the list `scripts`
    tagged,       \* find_test_scripts: the list `tagged_scripts`
    reads,        \* find_test_scripts: the paths whose text was read
    found         \* find_test_scripts: the list returned

vars == <<pc, entry, args, scripts, behaviour, max_workers, timeout, submitted,
          work_queue, worker, child, future, results, failures, summary,
          emitted, written, exit_status, directory, dir_exists, patterns, tags,
          cursor, globbed, tagged, reads, found>>

\* The variables of find_test_scripts.
find_vars == <<directory, dir_exists, patterns, tags, cursor, globbed, tagged,
               reads, found>>
\* The variables of the command line and of the sequential runner.
cli_vars == <<entry, args, failures, summary, emitted, written, exit_status>>
\* The inputs of a run.
input_vars == <<scripts, behaviour, max_workers, timeout, find_vars>>
\* The variables of the pool.
pool_vars == <<submitted, work_queue, worker, child, future>>

Items == 1..Len(scripts)
Workers == 1..max_workers
NoResult == [name |-> "", exit_code |-> 0, stdout |-> <<>>, stderr |-> <<>>,
             status |-> "NONE"]
NoSummary == [total |-> 0, passed |-> 0, failed |-> 0]

\* Work items a worker has taken and whose future is not yet set.
Running == {i \in Items : child[i] = "alive"}

\* No pool yet: nothing submitted, every worker idle, no future set.
PoolIdle ==
    /\ submitted = 0
    /\ work_queue = <<>>
    /\ worker = [w \in 1..max_workers |-> 0]
    /\ child = [i \in 1..Len(scripts) |-> "none"]
    /\ future = [i \in 1..Len(scripts) |->
                    [done |-> FALSE, yielded |-> FALSE, result |-> NoResult]]

\* Nothing collected, logged or written yet.
NothingReported ==
    /\ results = <<>>
    /\ failures = <<>>
    /\ summary = NoSummary
    /\ emitted = <<>>
    /\ written = {}
    /\ exit_status = 0

\* find_test_scripts has not been entered: its locals are empty.
FindStart ==
    /\ cursor = 0
    /\ globbed = <<>>
    /\ tagged = <<>>
    /\ reads = {}
    /\ found = <<>>

\* Discovery is over: the run starts from the list of scripts it gave.
FindIdle ==
    /\ directory = <<>>
    /\ dir_exists = TRUE
    /\ patterns = <<>>
    /\ tags = NoTags
    /\ FindStart

\* The state of the pool before the first submit, for a list of n scripts whose
\* children behave as some function into B.
PoolInit(B) ==
    /\ \E n \in 0..MaxScripts :
        /\ scripts = [i \in 1..n |-> i]
        /\ behaviour \in [1..n -> B]
    /\ max_workers \in 1..MaxWorkers
    /\ timeout \in Timeouts
    /\ PoolIdle
    /\ NothingReported
    /\ FindIdle

\* run_all_tests is called with a list of scripts.
ApiInit ==
    /\ PoolInit(StatusBehaviours)
    /\ entry = "api"
    /\ args = [json |-> FALSE, html |-> FALSE]
    /\ pc = "submit"

\* executor.submit(run_test, s, shell, timeout), once per script, in list order;
\* after the last one the main thread enters as_completed.
Submit ==
    /\ pc = "submit"
    /\ IF submitted < Len(scripts)
       THEN /\ submitted' = submitted + 1
            /\ work_queue' = Append(work_queue, submitted + 1)
            /\ pc' = pc
       ELSE /\ pc' = "as_completed"
            /\ UNCHANGED <<submitted, work_queue>>
    /\ UNCHANGED <<input_vars, cli_vars, worker, child, future, results>>

\* A pool that hands a work item to a thread that is still running one.
MayStartBusy(w) == TRUE

\* A pool that starts a work item only when no thread is running one.
MayStartWhenPoolIdle(w) == \A v \in Workers : worker[v] = 0

\* Whether worker thread w may take a work item: it is idle.
MayStart(w) == worker[w] = 0

\* An idle worker thread takes the oldest work item and run_test starts its child.
WorkerStart(w) ==
    /\ w \in Workers
    /\ MayStart(w)
    /\ work_queue # <<>>
    /\ worker' = [worker EXCEPT ![w] = Head(work_queue)]
    /\ child' = [child EXCEPT ![Head(work_queue)] = "alive"]
    /\ work_queue' = Tail(work_queue)
    /\ UNCHANGED <<input_vars, cli_vars, pc, submitted, future, results>>

\* The worker's run_test returns: the future is set and the worker is idle.
WorkerFinish(w, kind) ==
    /\ w \in Workers
    /\ worker[w] # 0
    /\ behaviour[worker[w]].kind = kind
    /\ future' = [future EXCEPT ![worker[w]] =
                    [done |-> TRUE, yielded |-> FALSE,
                     result |-> run_test(Name(scripts[worker[w]]),
                                         behaviour[worker[w]], timeout)]]
    /\ child' = [child EXCEPT ![worker[w]] = "reaped"]
    /\ worker' = [worker EXCEPT ![w] = 0]
    /\ UNCHANGED <<input_vars, cli_vars, pc, submitted, work_queue, results>>

\* The child exits on its own (or is killed by a signal) within the timeout.
ChildExit(w) == WorkerFinish(w, "exit")

\* A subprocess.run called without timeout: the worker keeps waiting.
WaitForever(w) ==
    /\ w \in Workers
    /\ worker[w] # 0
    /\ behaviour[worker[w]].kind = "hang"
    /\ UNCHANGED vars

\* A timeout that also cancels the work items still waiting in the queue.
TimeoutCancelsQueue(w) ==
    /\ w \in Workers
    /\ worker[w] # 0
    /\ behaviour[worker[w]].kind = "hang"
    /\ future' = [future EXCEPT ![worker[w]] =
                    [done |-> TRUE, yielded |-> FALSE,
                     result |-> run_test(Name(scripts[worker[w]]),
                                         behaviour[worker[w]], timeout)]]
    /\ child' = [child EXCEPT ![worker[w]] = "reaped"]
    /\ worker' = [worker EXCEPT ![w] = 0]
    /\ work_queue' = <<>>
    /\ UNCHANGED <<input_vars, cli_vars, pc, submitted, results>>

\* The timeout elapses before the child has completed: subprocess.run kills
\* it and raises TimeoutExpired.
TimeoutExpired(w) == WorkerFinish(w, "hang")

\* subprocess.run raises another exception.
UnexpectedError(w) == WorkerFinish(w, "raise")

\* An as_completed that yields a finished future again.
YieldableAgain == {i \in Items : future[i].done}

\* The futures as_completed may yield next: finished and not yet yielded.
Yieldable == {i \in Items : future[i].done /\ ~future[i].yielded}

\* A loop body that reads the result of the first finished future.
StaleResult(i) == future[CHOOSE j \in Items : future[j].done].result

\* future.result() of the future as_completed yielded.
FutureResult(i) == future[i].result

\* as_completed yields a finished future not yet yielded and the loop body
\* appends its result; with every future yielded the loop ends.
AsCompleted ==
    /\ pc = "as_completed"
    /\ IF \A i \in Items : future[i].yielded
       THEN /\ pc' = "shutdown"
            /\ UNCHANGED <<future, results>>
       ELSE \E i \in Yieldable :
            /\ future' = [future EXCEPT ![i].yielded = TRUE]
            /\ results' = Append(results, FutureResult(i))
            /\ pc' = pc
    /\ UNCHANGED <<input_vars, cli_vars, submitted, work_queue, worker, child>>

\* The with block ends: executor.shutdown(wait=True) joins the workers, and
\* run_all_tests returns results.
Shutdown ==
    /\ pc = "shutdown"
    /\ work_queue = <<>>
    /\ \A w \in Workers : worker[w] = 0
    /\ pc' = "returned"
    /\ UNCHANGED <<input_vars, cli_vars, submitted, work_queue, worker, child,
                   future, results>>

\* The steps of run_all_tests and of its pool.
PoolNext ==
    \/ Submit
    \/ \E w \in 1..MaxWorkers : WorkerStart(w)
    \/ \E w \in 1..MaxWorkers : ChildExit(w)
    \/ \E w \in 1..MaxWorkers : TimeoutExpired(w)
    \/ \E w \in 1..MaxWorkers : UnexpectedError(w)
    \/ AsCompleted
    \/ Shutdown


\* ------------------------------------------------- parallel runner: main
\* sum(1 for r in results if r["status"] == "PASS")
PassedCount(rs) == Cardinality({k \in 1..Len(rs) : rs[k].status = "PASS"})

\* The command line is run on a directory whose scripts find_test_scripts found.
MainInit ==
    /\ PoolInit(MainBehaviours)
    /\ entry = "main"
    /\ args \in [json : BOOLEAN, html : BOOLEAN]
    /\ pc = "main"

\* A main without the early return: it goes on to run_all_tests with no script.
MainFindNoReturn ==
    /\ pc = "main"
    /\ pc' = "submit"
    /\ UNCHANGED <<input_vars, pool_vars, entry, args, results, failures,
                   summary, emitted, written, exit_status>>

\* main up to the call of run_all_tests: with no script it warns and returns,
\* and the interpreter exits with status 0.
MainFind ==
    /\ pc = "main"
    /\ IF Len(scripts) = 0
       THEN pc' = "exited" /\ exit_status' = 0
       ELSE pc' = "submit" /\ exit_status' = exit_status
    /\ UNCHANGED <<input_vars, pool_vars, entry, args, results, failures,
                   summary, emitted, written>>

\* run_all_tests has returned: main counts the passed results and logs the summary.
MainSummary ==
    /\ pc = "returned"
    /\ entry = "main"
    /\ summary' = [total |-> Len(results), passed |-> PassedCount(results)]
    /\ pc' = "json"
    /\ UNCHANGED <<input_vars, pool_vars, entry, args, results, failures,
                   emitted, written, exit_status>>

\* The keys of a result dict of the parallel run_test, in insertion order.
ParallelKeys == <<"name", "exit_code", "stdout", "stderr", "status">>

\* The colour save_html_report gives a status.
StatusColor(status) ==
    CASE status = "PASS" -> "green"
      [] status = "FAIL" -> "red"
      [] status = "TIMEOUT" -> "orange"
      [] status = "ERROR" -> "darkred"
      [] OTHER -> "black"

\* The table row save_html_report writes for one result.
ParallelHtmlRow(r) ==
    <<"<tr>", "<td>", r.name, "</td>", "<td", StatusColor(r.status), ">",
      r.status, "</td>", "<td>">> \o FormatInt(r.exit_code) \o <<"</td>", "</tr>">>

\* The text save_html_report writes: the heading, one row per result, the end.
HtmlReport(rows) ==
    <<"<html>", "<table>">>
    \o Join(rows, <<>>)
    \o <<"</table>", "</html>">>

\* A report step of a runner: when the report is asked for, it is written, or
\* open() or write() raises and the exception leaves the program (status 1).
WriteReport(at, asked, report, text, next) ==
    /\ pc = at
    /\ IF asked
       THEN \E ok \in BOOLEAN :
            IF ok
            THEN written' = written \cup {[report |-> report, text |-> text]}
                 /\ pc' = next
                 /\ exit_status' = exit_status
            ELSE written' = written /\ pc' = "raised" /\ exit_status' = 1
       ELSE written' = written /\ pc' = next /\ exit_status' = exit_status
    /\ UNCHANGED <<input_vars, pool_vars, entry, args, results, failures,
                   summary, emitted>>

\* if args.json: save_json_report(results)
MainJson ==
    WriteReport("json", args.json, "json", JsonDump(results, ParallelKeys), "html")

\* if args.html: save_html_report(results)
MainHtml ==
    WriteReport("html", args.html, "html", HtmlReport([k \in 1..Len(results) |-> ParallelHtmlRow(results[k])]),
                "main_end")

\* main returns None: the interpreter exits with status 0.
MainReturn ==
    /\ pc = "main_end"
    /\ pc' = "exited"
    /\ exit_status' = 0
    /\ UNCHANGED <<input_vars, pool_vars, entry, args, results, failures,
                   summary, emitted, written>>

MainNext ==
    \/ MainFind
    \/ PoolNext
    \/ MainSummary
    \/ MainJson
    \/ MainHtml
    \/ MainReturn

\* ------------------------------------------------------ sequential runner
\* script_path.name of the paths the patterns can match, in ascending order of
\* resolved path: t/sub/test_a.sh, t/test_a.sh, t/test_b.sh, ...
PathNames == <<"test_a.sh", "test_a.sh", "test_b.sh", "test_c.sh", "test_d.sh">>
PathName(p) == PathNames[p]

RECURSIVE SortedSeq(_)
\* sorted(unique_scripts)
SortedSeq(S) ==
    IF S = {} THEN <<>>
    ELSE LET m == CHOOSE x \in S : \A y \in S : x <= y
         IN <<m>> \o SortedSeq(S \ {m})

\* The duration measured around a subprocess.run that returns.
Elapsed == 1

\* test_runner.run_test(script_path, timeout): (name, code, out, err, duration).
seq_run_test(name, b, t) ==
    CASE b.kind = "exit" ->
            [name |-> name, exit_code |-> b.returncode, stdout |-> b.out.stdout,
             stderr |-> b.out.stderr, duration |-> Elapsed]
      [] b.kind = "hang" ->
            [name |-> name, exit_code |-> -1, stdout |-> <<>>,
             stderr |-> TimeoutMessage(t), duration |-> t]
      [] OTHER ->
            [name |-> name, exit_code |-> -2, stdout |-> <<>>,
             stderr |-> <<"Unexpected", "error:">> \o b.msg, duration |-> 0]

\* A failure test that misses the negative codes (timeout, error, signal).
IsFailurePositive(code) == code > 0

\* The else branch of `if code == 0`: the unit is logged [FAIL] and joins failures.
IsFailure(code) == code # 0

\* save_html_report's label and colour of a result.
HtmlLabel(r) == IF r.exit_code = 0 THEN "PASS" ELSE "FAIL"
HtmlColor(r) ==
    CASE r.exit_code = 0 -> "green"
      [] r.exit_code = -1 -> "orange"
      [] OTHER -> "red"

\* The keys of the result dict run_all_tests builds, in insertion order.
SequentialKeys == <<"name", "exit_code", "stdout", "stderr", "duration">>

\* The table row save_html_report writes for one result; the duration, whole
\* seconds here, is written with two decimals.
SequentialHtmlRow(r) ==
    <<"<tr>", "<td>", r.name, "</td>", "<td", HtmlColor(r), ">", HtmlLabel(r),
      "</td>", "<td>">> \o FormatInt(r.exit_code) \o <<"</td>", "<td>">>
    \o FormatInt(r.duration) \o <<".", "0", "0", "</td>", "</tr>">>

\* run_all_tests after find_test_scripts returned its sorted list of distinct paths.
SeqInit ==
    /\ \E S \in SUBSET (1..MaxScripts) : scripts = SortedSeq(S)
    /\ behaviour \in [1..Len(scripts) -> Behaviours]
    /\ timeout \in Timeouts
    /\ args \in [json : BOOLEAN, html : BOOLEAN]
    /\ entry = "sequential"
    /\ max_workers = 1
    /\ PoolIdle
    /\ NothingReported
    /\ FindIdle
    /\ pc = "seq_loop"

\* A loop that puts each new result in front of the ones collected before.
SeqRunTestPrepend ==
    /\ pc = "seq_loop"
    /\ IF Len(results) < Len(scripts)
       THEN LET i == Len(results) + 1
                r == seq_run_test(PathName(scripts[i]), behaviour[i], timeout)
            IN  /\ results' = <<r>> \o results
                /\ failures' = IF IsFailure(r.exit_code)
                               THEN Append(failures, r.name) ELSE failures
                /\ UNCHANGED <<pc, summary>>
       ELSE /\ summary' = [total |-> Len(scripts),
                           passed |-> Len(scripts) - Len(failures),
                           failed |-> Len(failures)]
            /\ pc' = "seq_json"
            /\ UNCHANGED <<results, failures>>
    /\ UNCHANGED <<input_vars, pool_vars, entry, args, emitted, written, exit_status>>

\* One iteration of `for script in scripts`: run_test, append the result, log
\* it and append the name to failures when the code is not 0; after the last
\* script the summary line is logged.
SeqRunTest ==
    /\ pc = "seq_loop"
    /\ IF Len(results) < Len(scripts)
       THEN LET i == Len(results) + 1
                r == seq_run_test(PathName(scripts[i]), behaviour[i], timeout)
            IN  /\ results' = Append(results, r)
                /\ failures' = IF IsFailure(r.exit_code)
                               THEN Append(failures, r.name) ELSE failures
                /\ UNCHANGED <<pc, summary>>
       ELSE /\ summary' = [total |-> Len(scripts),
                           passed |-> Len(scripts) - Len(failures),
                           failed |-> Len(failures)]
            /\ pc' = "seq_json"
            /\ UNCHANGED <<results, failures>>
    /\ UNCHANGED <<input_vars, pool_vars, entry, args, emitted, written, exit_status>>

\* if json_report: save_json_report(results, report_path / "test_results.json")
SeqJson ==
    WriteReport("seq_json", args.json, "json", JsonDump(results, SequentialKeys),
                "seq_html")

\* if html_report: save_html_report(results, report_path / "test_results.html")
SeqHtml ==
    WriteReport("seq_html", args.html, "html",
                HtmlReport([k \in 1..Len(results) |-> SequentialHtmlRow(results[k])]),
                "seq_verdict")

\* The verdict: with failures, their names are logged and exit(1); else exit(0).
SeqVerdict ==
    /\ pc = "seq_verdict"
    /\ IF failures # <<>>
       THEN emitted' = failures /\ exit_status' = 1
       ELSE emitted' = emitted /\ exit_status' = 0
    /\ pc' = "exited"
    /\ UNCHANGED <<input_vars, pool_vars, entry, args, results, failures,
                   summary, written>>

SeqNext ==
    \/ SeqRunTest
    \/ SeqJson
    \/ SeqHtml
    \/ SeqVerdict

\* ------------------------------------------------------ find_test_scripts
\* The variables of a run, which discovery leaves alone.
run_vars == <<entry, args, scripts, behaviour, max_workers, timeout, submitted,
              work_queue, worker, child, future, results, failures, summary,
              emitted, written, exit_status>>

\* No run has started yet.
RunIdle ==
    /\ args = [json |-> FALSE, html |-> FALSE]
    /\ scripts = <<>>
    /\ behaviour = <<>>
    /\ max_workers = 1
    /\ timeout = DefaultTimeout
    /\ PoolIdle
    /\ NothingReported

\* The elements of a list.
Range(l) == {l[k] : k \in 1..Len(l)}

\* The parallel find_test_scripts(directory, tags) is called.
ParFindInit ==
    /\ directory \in Directories(SourceTexts)
    /\ dir_exists = TRUE
    /\ patterns = <<DefaultPattern>>
    /\ tags \in TagFilters
    /\ FindStart
    /\ RunIdle
    /\ entry = "find_parallel"
    /\ pc = "par_glob"

\* scripts = [f for f in test_dir.glob("test_*.sh") if f.is_file()], in the
\* order the file system lists them; without a filter sorted(scripts) is
\* returned at once.
ParGlob ==
    /\ pc = "par_glob"
    /\ \E order \in Orders({p \in Glob(directory, dir_exists, patterns[1]) :
                              IsFile(directory, p)}) :
        /\ globbed' = order
        /\ IF NoFilter(tags)
           THEN found' = SortedPaths(Range(order)) /\ pc' = "found"
           ELSE found' = found /\ pc' = "par_filter"
    /\ UNCHANGED <<run_vars, directory, dir_exists, patterns, tags, cursor,
                   tagged, reads>>

\* One round of `for script in scripts`: the text is read and scanned, and the
\* script is kept when one of the tags asked for is among its tags; after the
\* last round sorted(tagged_scripts) is returned.
ParFilter ==
    /\ pc = "par_filter"
    /\ IF cursor < Len(globbed)
       THEN LET script == globbed[cursor + 1]
                script_tags == FindAll(ReadText(directory, script), 1)
            IN  /\ reads' = reads \cup {script}
                /\ tagged' = IF \E k \in 1..Len(tags.list) :
                                    TagIn(tags.list[k], script_tags)
                             THEN Append(tagged, script) ELSE tagged
                /\ cursor' = cursor + 1
                /\ UNCHANGED <<pc, found>>
       ELSE /\ found' = SortedPaths(Range(tagged))
            /\ pc' = "found"
            /\ UNCHANGED <<reads, tagged, cursor>>
    /\ UNCHANGED <<run_vars, directory, dir_exists, patterns, tags, globbed>>

\* The sequential find_test_scripts(directory, patterns) is called.
SeqFindInit ==
    /\ dir_exists \in BOOLEAN
    /\ directory \in IF dir_exists THEN Directories({<<>>})
                     ELSE {[p \in Paths |-> Absent(p)]}
    /\ patterns \in PatternLists
    /\ tags = NoTags
    /\ FindStart
    /\ RunIdle
    /\ entry = "find_sequential"
    /\ pc = "seq_glob"

\* One round of `for pattern in patterns`: scripts.extend(test_dir.glob(pattern));
\* after the last round the resolved regular files are returned, sorted.
SeqGlob ==
    /\ pc = "seq_glob"
    /\ IF cursor < Len(patterns)
       THEN \E order \in Orders(Glob(directory, dir_exists, patterns[cursor + 1])) :
                /\ globbed' = globbed \o order
                /\ cursor' = cursor + 1
                /\ UNCHANGED <<pc, found>>
       ELSE /\ found' = SortedPaths(UniqueScripts(directory, globbed))
            /\ pc' = "found"
            /\ UNCHANGED <<globbed, cursor>>
    /\ UNCHANGED <<run_vars, directory, dir_exists, patterns, tags, tagged, reads>>

FindNext ==
    \/ ParGlob
    \/ ParFilter
    \/ SeqGlob

\* ---------------------------------------------------------- specifications
\* Either runner's run_all_tests.
Init == ApiInit \/ SeqInit

Next == PoolNext \/ SeqNext

Spec == Init /\ [][Next]_vars

\* Either runner's find_test_scripts.
FindInit == ParFindInit \/ SeqFindInit
SpecFind == FindInit /\ [][FindNext]_vars

\* The parallel runner's command line.
SpecMain == MainInit /\ [][MainNext]_vars

\* The pool with children that differ in how they end.
FairInit ==
    /\ PoolInit(SchedulingBehaviours)
    /\ entry = "api"
    /\ args = [json |-> FALSE, html |-> FALSE]
    /\ pc = "submit"

\* Every thread that can take a step eventually takes one, and a child that
\* exits on its own eventually does.
ThreadFairness ==
    /\ WF_vars(Submit)
    /\ WF_vars(AsCompleted)
    /\ WF_vars(Shutdown)
    /\ \A w \in 1..MaxWorkers :
        /\ WF_vars(WorkerStart(w))
        /\ WF_vars(ChildExit(w))
        /\ WF_vars(UnexpectedError(w))

\* subprocess.run's timer: a child still running when it elapses is killed.
TimerFairness == \A w \in 1..MaxWorkers : WF_vars(TimeoutExpired(w))

SpecFair == FairInit /\ [][PoolNext]_vars /\ ThreadFairness /\ TimerFairness

\* The same pool when the timeout of a hung child is arbitrarily far away.
SpecHang == FairInit /\ [][PoolNext]_vars /\ ThreadFairness

\* ------------------------------------------------------------------ claims
\* The positions of the result list that hold a result of script i.
ResultsOf(i) == {k \in 1..Len(results) : results[k].name = Name(scripts[i])}

\* The scripts whose child does not complete within the timeout.
HangItems == {i \in Items : behaviour[i].kind = "hang"}

\* C1: when the parallel run_all_tests returns, the result list holds exactly
\* one result per submitted script, the one run_test gives it, whatever the
\* order of completion and the outcome; before that no script has two results.
C1_OneResultPerUnit ==
    entry = "api" =>
        /\ Len(results) <= Len(scripts)
        /\ \A i \in Items : Cardinality(ResultsOf(i)) <= 1
        /\ pc = "returned" =>
            /\ Len(results) = Len(scripts)
            /\ \A i \in Items :
                \E k \in 1..Len(results) :
                    /\ ResultsOf(i) = {k}
                    /\ results[k] = run_test(Name(scripts[i]), behaviour[i], timeout)

\* C1's case: two workers returned three results out of submission order, one
\* of a normal exit, one of a timeout and one of an internal error.
C1_Witness ==
    /\ entry = "api"
    /\ pc = "returned"
    /\ max_workers = 2
    /\ Len(results) = 3
    /\ results[1].name = Name(scripts[3])
    /\ {behaviour[i].kind : i \in Items} = {"exit", "hang", "raise"}

\* C2: at every moment of a parallel run the number of scripts that have
\* started and have no result yet is at most max_workers.
C2_AtMostNRunning ==
    entry = "api" => Cardinality(Running) <= max_workers

\* C2's case: every worker is busy while more scripts wait in the queue.
C2_Witness ==
    /\ entry = "api"
    /\ max_workers = 2
    /\ Cardinality(Running) = max_workers
    /\ work_queue # <<>>

\* Every script has been yielded once and has one result in the list.
AllCollectedOnce ==
    /\ Len(results) = Len(scripts)
    /\ \A i \in Items : future[i].yielded /\ Cardinality(ResultsOf(i)) = 1

\* C3: under fair scheduling run_all_tests returns, and it returns only with
\* exactly one result of every submitted script collected, also of a script
\* whose child never exits on its own.
C3_EveryUnitCollected ==
    /\ <>(pc = "returned")
    /\ [](pc = "returned" => AllCollectedOnce)

\* C3's case: the run returned with the result of a child that hung.
C3_Witness ==
    /\ pc = "returned"
    /\ Len(scripts) >= 2
    /\ HangItems # {}
    /\ \A i \in HangItems : \E k \in ResultsOf(i) : results[k].status = "TIMEOUT"

\* A worker has taken script u.
Started(u) == u \in Items /\ child[u] # "none"

\* C4: with at least two workers, while the only hung script occupies a
\* slot, every script not yet started is eventually started, with no help of
\* the timeout.
C4_HungUnitDoesNotStarve ==
    \A u \in 1..MaxScripts :
        []( ( /\ u \in Items
              /\ ~Started(u)
              /\ max_workers >= 2
              /\ Cardinality(HangItems) = 1
              /\ \E h \in HangItems : child[h] = "alive" )
            => <>Started(u) )

\* C4's case: while the hung script holds one slot, another slot has finished
\* one script and runs a further one.
C4_Witness ==
    /\ max_workers >= 2
    /\ Cardinality(HangItems) = 1
    /\ \E h \in HangItems :
        /\ child[h] = "alive"
        /\ \E u, v \in Items \ {h} :
            /\ h < u /\ u < v
            /\ child[u] = "reaped"
            /\ child[v] = "alive"

\* The process has ended: by exit(), by main returning, or by an exception.
Ended == pc \in {"exited", "raised"}

\* Whether a result carries what a timeout must: code -1, no stdout, and a
\* stderr message with the word Timeout and the duration.
IsTimeoutShaped(r) ==
    /\ r.exit_code = -1
    /\ r.stdout = <<>>
    /\ Contains(r.stderr, <<"Timeout">>)
    /\ Contains(r.stderr, IntToStr(timeout))

\* How often name n occurs in the list of names l.
Occurrences(l, n) == Cardinality({k \in 1..Len(l) : l[k] = n})

\* C5: the sequential run_all_tests ends the process with status 0 if and
\* only if no result has a non-zero exit code, and with status 1 otherwise.
C5_ExitStatusIffNoFailure ==
    (entry = "sequential" /\ Ended) =>
        exit_status =
            IF \A k \in 1..Len(results) : results[k].exit_code = 0 THEN 0 ELSE 1

\* C6: the parallel main ends with a non-zero status whenever a collected
\* result is not PASS, and with status 0 only when every result is PASS or
\* no script was found.
C6_MainExitStatus ==
    (entry = "main" /\ Ended) =>
        /\ (\E k \in 1..Len(results) : results[k].status # "PASS") => exit_status # 0
        /\ exit_status = 0 => \A k \in 1..Len(results) : results[k].status = "PASS"

OutcomeStatus(b) ==
    CASE b.kind = "exit" /\ b.returncode = 0 -> "PASS"
      [] b.kind = "exit" /\ b.returncode # 0 -> "FAIL"
      [] b.kind = "hang" -> "TIMEOUT"
      [] OTHER -> "ERROR"

\* C8: the name-to-status mapping of the results the parallel run_all_tests
\* returns is fixed by the scripts' outcomes alone, whatever order they
\* complete in: exit 0 is PASS, another exit code is FAIL.
C8_StatusByName ==
    (entry = "api" /\ pc = "returned") =>
        {<<results[k].name, results[k].status>> : k \in 1..Len(results)}
            = {<<Name(scripts[i]), OutcomeStatus(behaviour[i])>> : i \in Items}

\* C8's case: of a passing first and a failing second script on two workers,
\* the failing one was collected first.
C8_Witness ==
    /\ entry = "api"
    /\ pc = "returned"
    /\ max_workers = 2
    /\ Len(scripts) = 2
    /\ behaviour[1].kind = "exit" /\ behaviour[1].returncode = 0
    /\ behaviour[2].kind = "exit" /\ behaviour[2].returncode = 1
    /\ results[1].name = Name(scripts[2])
    /\ results[1].status = "FAIL"
    /\ results[2].status = "PASS"

\* C9: the result of a child ended by a signal never has both the exit code
\* and the classification of a timeout result or of an internal-error result.
C9_SignalDistinguishable ==
    entry = "sequential" =>
        \A i, j \in 1..Len(results) :
            ( /\ behaviour[i].kind = "exit"
              /\ behaviour[i].returncode < 0
              /\ behaviour[j].kind \in {"hang", "raise"} )
            => ~ ( /\ results[i].exit_code = results[j].exit_code
                   /\ HtmlLabel(results[i]) = HtmlLabel(results[j])
                   /\ HtmlColor(results[i]) = HtmlColor(results[j]) )

\* The names of the paths the sequential runner can be given.
PathNameSet == {PathName(p) : p \in 1..MaxScripts}

Wrote(report) == \E f \in written : f.report = report

\* A report that was asked for could not be written.
ReportWriteFailed ==
    \/ args.json /\ ~Wrote("json") /\ pc \notin {"seq_loop", "seq_json"}
    \/ args.html /\ ~Wrote("html") /\ pc \notin {"seq_loop", "seq_json", "seq_html"}

\* C11: a failure to write the JSON or HTML report does not abort the
\* sequential run nor change its verdict: the run still ends by exit() with
\* the status the results alone determine.
C11_ReportFailureKeepsVerdict ==
    (entry = "sequential" /\ ReportWriteFailed) =>
        /\ pc # "raised"
        /\ Ended =>
            exit_status =
                IF \E k \in 1..Len(results) : results[k].exit_code # 0 THEN 1 ELSE 0

C15_PassIffExitZero ==
    entry = "api" =>
        /\ \A i \in Items : future[i].done =>
            (future[i].result.status = "PASS" <=> future[i].result.exit_code = 0)
        /\ \A k \in 1..Len(results) :
            results[k].status = "PASS" <=> results[k].exit_code = 0
        /\ PassedCount(results) =
            Cardinality({k \in 1..Len(results) : results[k].exit_code = 0})

\* C15's case: the returned results hold a pass, a child ended by a signal
\* (negative code), a timeout and an internal error; one of them is counted.
C15_Witness ==
    /\ entry = "api"
    /\ pc = "returned"
    /\ PassedCount(results) = 1
    /\ \E k \in 1..Len(results) :
        results[k].status = "FAIL" /\ results[k].exit_code < 0
    /\ \E k \in 1..Len(results) : results[k].status \in {"TIMEOUT", "ERROR"}

\* The step in which the timeout of script h elapses and its child is killed.
TimesOut(h) ==
    /\ h \in Items
    /\ behaviour[h].kind = "hang"
    /\ child[h] = "alive"
    /\ child'[h] = "reaped"

\* C16: the step that cancels a timed-out script changes only that script's
\* outcome: the children, futures and workers of the other scripts, the
\* queue of waiting scripts and the results collected so far stay as they
\* are; and none of the other scripts is cancelled or skipped: each returns
\* the result of its own outcome.
C16_TimeoutFrame ==
    /\ [][\A h \in 1..MaxScripts : TimesOut(h) =>
            /\ \A i \in Items \ {h} :
                child'[i] = child[i] /\ future'[i] = future[i]
            /\ \A v \in Workers : worker[v] # h => worker'[v] = worker[v]
            /\ work_queue' = work_queue
            /\ submitted' = submitted
            /\ results' = results]_vars
    /\ []((entry = "api" /\ pc = "returned" /\ HangItems # {}) =>
            \A i \in Items \ HangItems :
                /\ child[i] = "reaped"
                /\ \E k \in ResultsOf(i) :
                    results[k] = run_test(Name(scripts[i]), behaviour[i], timeout))

\* C16's case: a script has just timed out while another one is running and
\* a third one is still waiting in the queue.
C16_Witness ==
    /\ entry = "api"
    /\ \E h \in HangItems :
        /\ future[h].done /\ ~future[h].yielded
        /\ future[h].result.status = "TIMEOUT"
        /\ \E u \in Items \ HangItems : child[u] = "alive"
        /\ work_queue # <<>>

\* The names of the results with a non-zero exit code, in the results' order.
FailedNames(rs) ==
    LET failed == SelectSeq(rs, LAMBDA r : r.exit_code # 0)
    IN  [k \in 1..Len(failed) |-> failed[k].name]

\* C18: the sequential run_all_tests runs the scripts one at a time in the
\* order find_test_scripts gave them: the k-th result is the result of the
\* k-th script, each step adds at most the result of the next script and no
\* child runs beside it, and the failure list is the names of the results
\* with a non-zero exit code in that same order.
C18_SequentialOrder ==
    /\ [](entry = "sequential" =>
            /\ Len(results) <= Len(scripts)
            /\ \A k \in 1..Len(results) :
                results[k] = seq_run_test(PathName(scripts[k]), behaviour[k], timeout)
            /\ \A k \in 1..(Len(scripts) - 1) : scripts[k] < scripts[k + 1]
            /\ failures = FailedNames(results)
            /\ Running = {})
    /\ [][entry = "sequential" =>
            \/ results' = results
            \/ /\ Len(results) < Len(scripts)
               /\ results' = Append(results,
                     seq_run_test(PathName(scripts[Len(results) + 1]),
                                  behaviour[Len(results) + 1], timeout))]_vars

\* C18's case: of three scripts the first and the third failed and the second
\* passed; the failure list names the first, then the third.
C18_Witness ==
    /\ entry = "sequential"
    /\ pc = "seq_verdict"
    /\ Len(results) = 3
    /\ results[1].exit_code = 1
    /\ results[2].exit_code = 0
    /\ results[3].exit_code = -2
    /\ results[1].name # results[3].name
    /\ failures = <<results[1].name, results[3].name>>

\* ---- reading a JSON text back (what json.load does with the report) ----
DigitSet == {DigitChars[k] : k \in 1..Len(DigitChars)}
DigitValue(c) == (CHOOSE k \in 1..Len(DigitChars) : DigitChars[k] = c) - 1

RECURSIVE SkipWs(_, _)
\* The first position at or after p that holds no whitespace.
SkipWs(toks, p) ==
    IF p <= Len(toks) /\ toks[p] \in Whitespace THEN SkipWs(toks, p + 1) ELSE p

\* The character an escape sequence stands for.
Unescape(c) == IF c = "n" THEN Newline ELSE c

RECURSIVE ParseString(_, _, _)
\* The string whose opening quote stands before p, and the position after it.
ParseString(toks, p, acc) ==
    IF toks[p] = Quote THEN [value |-> acc, next |-> p + 1]
    ELSE IF toks[p] = Backslash
         THEN ParseString(toks, p + 2, Append(acc, Unescape(toks[p + 1])))
         ELSE ParseString(toks, p + 1, Append(acc, toks[p]))

RECURSIVE ParseDigits(_, _, _)
ParseDigits(toks, p, acc) ==
    IF p <= Len(toks) /\ toks[p] \in DigitSet
    THEN ParseDigits(toks, p + 1, 10 * acc + DigitValue(toks[p]))
    ELSE [value |-> acc, next |-> p]

\* The integer that starts at p, and the position after it.
ParseNumber(toks, p) ==
    IF toks[p] = "-"
    THEN LET d == ParseDigits(toks, p + 1, 0)
         IN  [value |-> 0 - d.value, next |-> d.next]
    ELSE ParseDigits(toks, p, 0)

ParseValue(toks, p) ==
    IF toks[p] = Quote THEN ParseString(toks, p + 1, <<>>) ELSE ParseNumber(toks, p)

RECURSIVE ParseMembers(_, _, _)
\* The members of the object whose brace stands before p, as a function from
\* key to value, and the position after its closing brace.
ParseMembers(toks, p, obj) ==
    LET q == SkipWs(toks, p)
    IN  IF toks[q] = "}" THEN [value |-> obj, next |-> q + 1]
        ELSE IF toks[q] = "," THEN ParseMembers(toks, q + 1, obj)
        ELSE LET key == ParseString(toks, q + 1, <<>>)
                 colon == SkipWs(toks, key.next)
                 val == ParseValue(toks, SkipWs(toks, colon + 1))
             IN  ParseMembers(toks, val.next, (key.value[1] :> val.value) @@ obj)

RECURSIVE ParseElements(_, _, _)
\* The objects of the array whose bracket stands before p.
ParseElements(toks, p, acc) ==
    LET q == SkipWs(toks, p)
    IN  IF toks[q] = "]" THEN acc
        ELSE IF toks[q] = "," THEN ParseElements(toks, q + 1, acc)
        ELSE LET o == ParseMembers(toks, q + 1, <<>>)
             IN  ParseElements(toks, o.next, Append(acc, o.value))

\* json.loads of the text of a report: a sequence of key -> value functions.
JsonLoads(text) == ParseElements(text, SkipWs(text, 1) + 1, <<>>)

\* The texts written as the JSON report.
JsonTexts == {f.text : f \in {g \in written : g.report = "json"}}

\* C14: the JSON report written for N results parses back to an array of N
\* objects whose k-th has the name and the exit code of the k-th result, and
\* writing it leaves the results as they were.
C14_JsonRoundTrip ==
    /\ [](\A text \in JsonTexts :
            LET parsed == JsonLoads(text)
            IN  /\ Len(parsed) = Len(results)
                /\ \A k \in 1..Len(results) :
                    /\ parsed[k]["name"] = <<results[k].name>>
                    /\ parsed[k]["exit_code"] = results[k].exit_code
                    /\ parsed[k]["stderr"] = results[k].stderr)
    /\ [][written' # written => results' = results]_vars

\* C14's case: a JSON report of three results was written, among them a
\* negative exit code and a stderr of several words.
C14_Witness ==
    /\ entry = "sequential"
    /\ Wrote("json")
    /\ Len(results) = 3
    /\ results[1].exit_code = 0
    /\ results[2].exit_code = -1 /\ Len(results[2].stderr) > 1
    /\ results[3].exit_code = 1

\* Whether the text holds an annotation of the tag: a #, any spaces, an @,
\* and then the tag as a whole word.
HasAnnotation(text, tag) ==
    \E h \in 1..Len(text) : \E a \in (h + 1)..Len(text) :
        /\ text[h] = "#"
        /\ \A k \in (h + 1)..(a - 1) : text[k] \in SpaceChars
        /\ text[a] = "@"
        /\ tag # <<>>
        /\ a + Len(tag) <= Len(text)
        /\ SubSeq(text, a + 1, a + Len(tag)) = tag
        /\ \A k \in 1..Len(tag) : tag[k] \in WordChars
        /\ (a + Len(tag) < Len(text)) => text[a + Len(tag) + 1] \notin WordChars

\* The regular files of the directory named test_*.sh.
TestScripts ==
    {p \in Paths : /\ directory[p].kind # "absent"
                   /\ IsFile(directory, p)
                   /\ GlobMatch(DefaultPattern, FileNames[p])}

\* Whether a list of paths ascends strictly by name.
Ascending(l) ==
    \A k \in 1..(Len(l) - 1) : StrLess(FileNames[l[k]], FileNames[l[k + 1]])

\* C13: with a non-empty tag filter the parallel find_test_scripts returns
\* exactly the test scripts whose text holds an annotation of one of the tags
\* of the filter.
C13_TagFilter ==
    (entry = "find_parallel" /\ pc = "found" /\ tags.given /\ tags.list # <<>>) =>
        Range(found) =
            {p \in TestScripts :
                \E k \in 1..Len(tags.list) :
                    HasAnnotation(ReadText(directory, p), tags.list[k])}

\* C13's case: filtered by tag a, a script annotated @a is returned while a
\* script annotated only @ab and a script without annotation are left out.
C13_Witness ==
    /\ entry = "find_parallel"
    /\ pc = "found"
    /\ tags.list = << <<"a">> >>
    /\ Cardinality(TestScripts) = 2
    /\ Len(found) = 1
    /\ \E p \in TestScripts \ Range(found) :
        ReadText(directory, p) = <<"#", " ", "@", "a", "b">>

\* C19: with the tag filter None or empty the parallel find_test_scripts
\* returns every regular file named test_*.sh, sorted, and reads no text.
C19_NoFilter ==
    (entry = "find_parallel" /\ (~tags.given \/ tags.list = <<>>)) =>
        /\ reads = {}
        /\ pc = "found" =>
            /\ Range(found) = TestScripts
            /\ Len(found) = Cardinality(TestScripts)
            /\ Ascending(found)

\* C19's case: called with an empty list, two scripts are returned in
\* ascending order, one of them annotated.
C19_Witness ==
    /\ entry = "find_parallel"
    /\ pc = "found"
    /\ tags.given /\ tags.list = <<>>
    /\ Len(found) = 2
    /\ \E p \in Range(found) : directory[p].text # <<>>

\* The paths of the directory whose name matches one of the patterns and that
\* are a regular file, directly or through a link.
MatchedFiles ==
    {p \in Paths : /\ dir_exists
                   /\ directory[p].kind # "absent"
                   /\ IsFile(directory, p)
                   /\ \E k \in 1..Len(patterns) : GlobMatch(patterns[k], FileNames[p])}

\* C17: for every directory and list of patterns the sequential
\* find_test_scripts returns the canonical path of each matching regular
\* file exactly once, in ascending order, however many patterns or links
\* lead to it; a directory that does not exist gives the empty list.
C17_UniqueSorted ==
    (entry = "find_sequential" /\ pc = "found") =>
        /\ Range(found) = {Resolve(directory, p) : p \in MatchedFiles}
        /\ \A k \in 1..Len(found) : directory[found[k]].kind = "file"
        /\ Ascending(found)
        /\ Len(found) = Cardinality(Range(found))
        /\ ~dir_exists => found = <<>>

\* C17's case: two overlapping patterns both listed the same script, a link
\* listed it a third time, and the list returned names it once, after another
\* file that sorts before it.
C17_Witness ==
    /\ entry = "find_sequential"
    /\ pc = "found"
    /\ Len(patterns) = 2 /\ patterns[1] # patterns[2]
    /\ \E p \in Paths :
        /\ Cardinality({k \in 1..Len(globbed) : globbed[k] = p}) = 2
        /\ \E l \in Range(globbed) :
            directory[l].kind = "link" /\ directory[l].target = p
        /\ Len(found) = 2
        /\ found[2] = p

\* C17's other case: the directory does not exist and the call returned.
C17_MissingDirectoryReturned ==
    entry = "find_sequential" /\ pc = "found" /\ ~dir_exists /\ patterns # <<>>

\* C20: when the parallel main finds no script it returns before the pool
\* is created: nothing is submitted or run, no summary is computed, no report
\* is written even when asked for, and the process ends with status 0.
C20_EmptyRunIsNoOp ==
    (entry = "main" /\ Len(scripts) = 0) =>
        /\ pc \in {"main", "exited"}
        /\ submitted = 0
        /\ results = <<>>
        /\ summary = NoSummary
        /\ written = {}
        /\ pc = "exited" => exit_status = 0

\* C20's case: main ended on an empty directory with both reports asked for.
C20_Witness ==
    /\ entry = "main"
    /\ pc = "exited"
    /\ Len(scripts) = 0
    /\ args.json /\ args.html
    /\ written = {}

====
